---- MODULE Spec2Model ----
(***************************************************************************)
(* The chat endpoint of gridpilot: POST /api/chat validates the request,   *)
(* spawns the python agent process, accumulates its stdout and stderr in   *)
(* two buffers, and on 'close' either reports a failure or extracts the    *)
(* tagged agent lines from the accumulated stdout and composes the reply.  *)
(*                                                                         *)
(* JavaScript strings are modelled as sequences of UTF-16 code units, each *)
(* unit a string naming one character; a stream chunk (a Buffer) is a      *)
(* sequence of bytes, an ASCII byte written as its character and a         *)
(* non-ASCII byte as "0xNN".                                               *)
(***************************************************************************)
EXTENDS Integers, Sequences, FiniteSets

VARIABLES
    pc,              \* position of the request handler
    body,            \* req.body of the request
    spawnOutcome,    \* what spawn() did for this request
    spawnCalls,      \* number of spawn() calls made
    dataString,      \* accumulated stdout text
    errorString,     \* accumulated stderr text
    stdoutChunks,    \* the chunks the stdout 'data' events delivered, in order
    stderrChunks,    \* the chunks the stderr 'data' events delivered, in order
    closeCode,       \* the argument of the 'close' event
    composed,        \* whether the extraction and composition code has run
    formattedResponse, \* the local formattedResponse when res.json is reached
    responses        \* the responses sent on res, in order

vars == <<pc, body, spawnOutcome, spawnCalls, dataString, errorString,
          stdoutChunks, stderrChunks, closeCode, composed, formattedResponse,
          responses>>

----------------------------------------------------------------------------
(* Bounds of the model. *)

\* stdout 'data' events per request
MaxOut == 3

\* stderr 'data' events per request
MaxErr == 1

----------------------------------------------------------------------------
(* String literals of the handler. *)

\* 'Message is required'
MESSAGE_REQUIRED ==
    <<"M", "e", "s", "s", "a", "g", "e", " ", "i", "s", " ", "r", "e", "q",
    "u", "i", "r", "e", "d">>

\* 'Failed to process request. Please check server logs.'
FAILED_PROCESS ==
    <<"F", "a", "i", "l", "e", "d", " ", "t", "o", " ", "p", "r", "o", "c",
    "e", "s", "s", " ", "r", "e", "q", "u", "e", "s", "t", ".", " ", "P",
    "l", "e", "a", "s", "e", " ", "c", "h", "e", "c", "k", " ", "s", "e",
    "r", "v", "e", "r", " ", "l", "o", "g", "s", ".">>

\* 'Failed to get response'
FAILED_RESPONSE ==
    <<"F", "a", "i", "l", "e", "d", " ", "t", "o", " ", "g", "e", "t", " ",
    "r", "e", "s", "p", "o", "n", "s", "e">>

\* 'No response generated'
SENTINEL ==
    <<"N", "o", " ", "r", "e", "s", "p", "o", "n", "s", "e", " ", "g", "e",
    "n", "e", "r", "a", "t", "e", "d">>

\* 'CAISO_Market'
CAISO_Market ==
    <<"C", "A", "I", "S", "O", "_", "M", "a", "r", "k", "e", "t">>

\* 'Weather'
Weather ==
    <<"W", "e", "a", "t", "h", "e", "r">>

\* 'None'
NONE ==
    <<"N", "o", "n", "e">>

\* 'User:'
USER_PREFIX ==
    <<"U", "s", "e", "r", ":">>

\* 'UserWarning'
USERWARNING ==
    <<"U", "s", "e", "r", "W", "a", "r", "n", "i", "n", "g">>

\* 'INFO'
INFO ==
    <<"I", "N", "F", "O">>

\* 'DEBUG'
DEBUG ==
    <<"D", "E", "B", "U", "G">>

\* 'Warning:'
WARNING_COLON ==
    <<"W", "a", "r", "n", "i", "n", "g", ":">>

----------------------------------------------------------------------------
(* The inputs: chunks the agent process writes to stdout and to stderr, and *)
(* a request message. {NN} in a comment is the byte 0xNN.                   *)

\* '[Weather]: 21{C2}{B0}C, cloud 85%\n'
OutWeather ==
    <<"[", "W", "e", "a", "t", "h", "e", "r", "]", ":", " ", "2", "1",
    "0xC2", "0xB0", "C", ",", " ", "c", "l", "o", "u", "d", " ", "8", "5",
    "%", "\n">>

\* '[Weather]: Cloudy\n[CAISO_Market]: Load is ok\n'
OutShortData ==
    <<"[", "W", "e", "a", "t", "h", "e", "r", "]", ":", " ", "C", "l", "o",
    "u", "d", "y", "\n", "[", "C", "A", "I", "S", "O", "_", "M", "a", "r",
    "k", "e", "t", "]", ":", " ", "L", "o", "a", "d", " ", "i", "s", " ",
    "o", "k", "\n">>

\* '[Coordinator]: All nominal'
OutPartial ==
    <<"[", "C", "o", "o", "r", "d", "i", "n", "a", "t", "o", "r", "]", ":",
    " ", "A", "l", "l", " ", "n", "o", "m", "i", "n", "a", "l">>

\* '[Coordinator]: None\n'
OutNone ==
    <<"[", "C", "o", "o", "r", "d", "i", "n", "a", "t", "o", "r", "]", ":",
    " ", "N", "o", "n", "e", "\n">>

\* '\nINFO: boot\nUser: hi\nx DEBUG y\nsys:1: UserWarning: z\nWarning: w\n'
OutNoise ==
    <<"\n", "I", "N", "F", "O", ":", " ", "b", "o", "o", "t", "\n", "U",
    "s", "e", "r", ":", " ", "h", "i", "\n", "x", " ", "D", "E", "B", "U",
    "G", " ", "y", "\n", "s", "y", "s", ":", "1", ":", " ", "U", "s", "e",
    "r", "W", "a", "r", "n", "i", "n", "g", ":", " ", "z", "\n", "W", "a",
    "r", "n", "i", "n", "g", ":", " ", "w", "\n">>

\* 'Plain line\n'
OutPlain ==
    <<"P", "l", "a", "i", "n", " ", "l", "i", "n", "e", "\n">>

\* '[Analyst]: ok\n[Coordinator]: Done\r\n'
OutCarriage ==
    <<"[", "A", "n", "a", "l", "y", "s", "t", "]", ":", " ", "o", "k",
    "\n", "[", "C", "o", "o", "r", "d", "i", "n", "a", "t", "o", "r", "]",
    ":", " ", "D", "o", "n", "e", "\r", "\n">>

\* '[bad-tag]: User: x\n \t\n'
OutBadTag ==
    <<"[", "b", "a", "d", "-", "t", "a", "g", "]", ":", " ", "U", "s", "e",
    "r", ":", " ", "x", "\n", " ", "\t", "\n">>

\* '{B0}C now\n[CAISO_Market]: Load 300MW at 21{C2}'
OutSplit ==
    <<"0xB0", "C", " ", "n", "o", "w", "\n", "[", "C", "A", "I", "S", "O",
    "_", "M", "a", "r", "k", "e", "t", "]", ":", " ", "L", "o", "a", "d",
    " ", "3", "0", "0", "M", "W", " ", "a", "t", " ", "2", "1", "0xC2">>

\* 'Traceback: boom\n'
ErrTrace ==
    <<"T", "r", "a", "c", "e", "b", "a", "c", "k", ":", " ", "b", "o", "o",
    "m", "\n">>

\* 'UserWarning: z\n'
ErrWarn ==
    <<"U", "s", "e", "r", "W", "a", "r", "n", "i", "n", "g", ":", " ", "z",
    "\n">>

\* 'load?'
MsgQuery ==
    <<"l", "o", "a", "d", "?">>

----------------------------------------------------------------------------
(* JavaScript string and regular-expression primitives. *)

\* \w of the regular expression: [A-Za-z0-9_]
WordChars ==
    {"a", "b", "c", "d", "e", "f", "g", "h", "i", "j", "k", "l", "m", "n",
     "o", "p", "q", "r", "s", "t", "u", "v", "w", "x", "y", "z", "A", "B",
     "C", "D", "E", "F", "G", "H", "I", "J", "K", "L", "M", "N", "O", "P",
     "Q", "R", "S", "T", "U", "V", "W", "X", "Y", "Z", "0", "1", "2", "3",
     "4", "5", "6", "7", "8", "9", "_"}

\* the characters "." does not match
LineTerminators == {"\n", "\r", "U+2028", "U+2029"}

\* the characters String.prototype.trim removes
WhiteSpace == {" ", "\t", "\n", "\r", "\f", "U+000B", "U+00A0", "U+FEFF",
               "U+2028", "U+2029"}

\* bytes that open a two-byte UTF-8 sequence, and continuation bytes
LeadBytes == {"0xC2"}
ContBytes == {"0xB0"}

\* the code unit a well-formed two-byte sequence decodes to
CodeUnit(lead, cont) ==
    IF lead = "0xC2" /\ cont = "0xB0" THEN "U+00B0" ELSE "U+FFFD"

\* a finite set of integers as the sequence of its elements in increasing order
RECURSIVE Ascending(_)
Ascending(S) ==
    IF S = {} THEN <<>>
    ELSE LET least == CHOOSE i \in S : \A j \in S : i <= j
         IN  <<least>> \o Ascending(S \ {least})

\* Buffer.prototype.toString(): UTF-8 decoding of one chunk on its own. A lead
\* byte and the continuation byte after it decode to one code unit; a lead
\* byte with no continuation byte after it (the chunk ends, or another byte
\* follows) and a continuation byte with no lead byte before it decode to
\* U+FFFD each. ("" marks the place of a byte decoded with the one before.)
toString(data) ==
    LET consumed(i) == /\ i > 1
                       /\ data[i] \in ContBytes
                       /\ data[i - 1] \in LeadBytes
        unit(i) == IF data[i] \in LeadBytes
                   THEN IF i < Len(data) /\ data[i + 1] \in ContBytes
                        THEN CodeUnit(data[i], data[i + 1])
                        ELSE "U+FFFD"
                   ELSE IF data[i] \in ContBytes THEN "U+FFFD" ELSE data[i]
        units == [i \in 1..Len(data) |-> IF consumed(i) THEN "" ELSE unit(i)]
    IN  SelectSeq(units, LAMBDA u : u # "")

\* String.prototype.split('\n'): the segments between consecutive newlines,
\* one more than there are newlines
split(s) ==
    LET breaks == Ascending({i \in 1..Len(s) : s[i] = "\n"})
        from(k) == IF k = 1 THEN 1 ELSE breaks[k - 1] + 1
        to(k) == IF k > Len(breaks) THEN Len(s) ELSE breaks[k] - 1
    IN  [k \in 1..(Len(breaks) + 1) |-> SubSeq(s, from(k), to(k))]

\* Array.prototype.join(sep)
RECURSIVE join(_, _)
join(parts, sep) ==
    IF Len(parts) = 0 THEN <<>>
    ELSE IF Len(parts) = 1 THEN parts[1]
         ELSE parts[1] \o sep \o join(Tail(parts), sep)

startsWith(s, p) == Len(s) >= Len(p) /\ SubSeq(s, 1, Len(p)) = p

includes(s, p) ==
    \E i \in 1..(Len(s) - Len(p) + 1) : SubSeq(s, i, i + Len(p) - 1) = p

trim(s) ==
    LET keep == {i \in 1..Len(s) : s[i] \notin WhiteSpace}
    IN  IF keep = {} THEN <<>>
        ELSE SubSeq(s, CHOOSE i \in keep : \A j \in keep : i <= j,
                       CHOOSE i \in keep : \A j \in keep : j <= i)

\* line.match(/^\[([\w_]+)\]: (.+)$/): the tag is the longest run of word
\* characters after "[", which "]: " and at least one character, none of
\* them a line terminator, must follow up to the end of the line
agentMatch(line) ==
    LET n == Len(line)
        tagEnd == CHOOSE k \in 1..n :
                      /\ \A j \in 2..k : line[j] \in WordChars
                      /\ (k = n \/ line[k + 1] \notin WordChars)
        ok == /\ n >= 1
              /\ line[1] = "["
              /\ tagEnd >= 2
              /\ n >= tagEnd + 4
              /\ SubSeq(line, tagEnd + 1, tagEnd + 3) = <<"]", ":", " ">>
              /\ \A j \in (tagEnd + 4)..n : line[j] \notin LineTerminators
    IN  IF ok
        THEN [matched |-> TRUE, agent |-> SubSeq(line, 2, tagEnd),
              message |-> SubSeq(line, tagEnd + 4, n)]
        ELSE [matched |-> FALSE, agent |-> <<>>, message |-> <<>>]

----------------------------------------------------------------------------
(* The 'close' handler's extraction and composition. *)

\* code !== 0; a code is {n}, and {} is null (the process was killed)
ExitFailed_Truthy(code) == code # {0} /\ code # {}

ExitFailed(code) == code # {0}

\* the lines pushed to agentResponses
RECURSIVE agentResponsesOf(_)
agentResponsesOf(lines) ==
    IF Len(lines) = 0 THEN <<>>
    ELSE LET m == agentMatch(Head(lines))
         IN  IF m.matched /\ m.message # NONE
             THEN <<[agent |-> m.agent, message |-> m.message]>>
                      \o agentResponsesOf(Tail(lines))
             ELSE agentResponsesOf(Tail(lines))

agentResponses(raw) == agentResponsesOf(split(raw))

lastResponse_First(responsesOfAgents) == responsesOfAgents[1]

lastResponse(responsesOfAgents) == responsesOfAgents[Len(responsesOfAgents)]

marketData(responsesOfAgents) ==
    SelectSeq(responsesOfAgents, LAMBDA r : r.agent = CAISO_Market)

weatherData(responsesOfAgents) ==
    SelectSeq(responsesOfAgents, LAMBDA r : r.agent = Weather)

\* the filter of the combined response
CombineKeeps_Over11(r) == r.message # NONE /\ Len(r.message) > 11

CombineKeeps(r) == r.message # NONE /\ Len(r.message) > 10

CombineSeparator_Newline == <<"\n">>

CombineSeparator == <<"\n", "\n">>

messagesOf(responsesOfAgents) ==
    [i \in 1..Len(responsesOfAgents) |-> responsesOfAgents[i].message]

\* the filter of the raw-output fallback
FallbackKeeps_NoTrim(line) ==
    /\ ~startsWith(line, USER_PREFIX)
    /\ ~includes(line, USERWARNING)
    /\ ~includes(line, INFO)
    /\ ~includes(line, DEBUG)
    /\ ~includes(line, WARNING_COLON)
    /\ Len(line) > 0

FallbackKeeps(line) ==
    /\ ~startsWith(line, USER_PREFIX)
    /\ ~includes(line, USERWARNING)
    /\ ~includes(line, INFO)
    /\ ~includes(line, DEBUG)
    /\ ~includes(line, WARNING_COLON)
    /\ Len(trim(line)) > 0

\* the value of formattedResponse when res.json is reached
FormatResponse(raw) ==
    LET found == agentResponses(raw)
    IN  IF Len(found) > 0
        THEN IF Len(marketData(found)) > 0 \/ Len(weatherData(found)) > 0
             THEN join(messagesOf(SelectSeq(found, CombineKeeps)),
                       CombineSeparator)
             ELSE lastResponse(found).message
        ELSE join(SelectSeq(split(raw), FallbackKeeps), <<"\n">>)

\* formattedResponse || 'No response generated'
FinalGuard_None(formatted) == formatted

FinalGuard(formatted) == IF formatted = <<>> THEN SENTINEL ELSE formatted

----------------------------------------------------------------------------
(* Requests, and what the agent process writes. *)

\* !message
MessageMissing_OnlyUndefined(reqBody) == ~reqBody.hasMessage

MessageMissing(reqBody) == ~reqBody.hasMessage \/ reqBody.message = <<>>

Bodies ==
    {[hasMessage |-> FALSE, message |-> <<>>],
     [hasMessage |-> TRUE, message |-> <<>>],
     [hasMessage |-> TRUE, message |-> MsgQuery]}

\* spawn() returns a child that runs, throws synchronously (an argument it
\* rejects, E2BIG), or returns a child that will emit 'error' (ENOENT, EACCES)
SpawnOutcomes == {"running", "throws", "errorEvent"}

StdoutPool == {OutWeather, OutShortData, OutPartial, OutNone, OutNoise,
               OutPlain, OutCarriage, OutBadTag, OutSplit}

StderrPool == {ErrTrace, ErrWarn}

\* exit codes: {n} is the number n, {} is null
ExitCodes == {{0}, {1}, {}}

Response(status, key, text) == [status |-> status, key |-> key, text |-> text]

----------------------------------------------------------------------------
(* The handler. *)

Init ==
    /\ pc = "idle"
    /\ body = [hasMessage |-> FALSE, message |-> <<>>]
    /\ spawnOutcome = "none"
    /\ spawnCalls = 0
    /\ dataString = <<>>
    /\ errorString = <<>>
    /\ stdoutChunks = <<>>
    /\ stderrChunks = <<>>
    /\ closeCode = {}
    /\ composed = FALSE
    /\ formattedResponse = <<>>
    /\ responses = <<>>

\* app.post('/api/chat'): the synchronous part of the handler
PostChat(reqBody, outcome) ==
    /\ pc = "idle"
    /\ body' = reqBody
    /\ IF MessageMissing(reqBody)
       THEN /\ responses' = Append(responses,
                                   Response(400, "error", MESSAGE_REQUIRED))
            /\ pc' = "rejected"
            /\ UNCHANGED <<spawnOutcome, spawnCalls>>
       ELSE /\ spawnCalls' = spawnCalls + 1
            /\ spawnOutcome' = outcome
            /\ IF outcome = "throws"
               THEN /\ responses' = Append(responses,
                                     Response(500, "error", FAILED_RESPONSE))
                    /\ pc' = "threw"
               ELSE /\ responses' = responses
                    /\ pc' = IF outcome = "running" THEN "running"
                                                    ELSE "spawnError"
    /\ UNCHANGED <<dataString, errorString, stdoutChunks, stderrChunks,
                   closeCode, composed, formattedResponse>>

\* the child emits 'error'; no listener is registered for it, so the event is
\* thrown as an uncaught exception and the server process ends
UncaughtSpawnError ==
    /\ pc = "spawnError"
    /\ pc' = "crashed"
    /\ UNCHANGED <<body, spawnOutcome, spawnCalls, dataString, errorString,
                   stdoutChunks, stderrChunks, closeCode, composed,
                   formattedResponse, responses>>

\* pythonProcess.stdout.on('data')
OnStdoutData(data) ==
    /\ dataString' = dataString \o toString(data)
    /\ UNCHANGED errorString

StdoutData(data) ==
    /\ pc = "running"
    /\ Len(stdoutChunks) < MaxOut
    /\ stdoutChunks' = Append(stdoutChunks, data)
    /\ OnStdoutData(data)
    /\ UNCHANGED <<pc, body, spawnOutcome, spawnCalls, stderrChunks,
                   closeCode, composed, formattedResponse, responses>>

\* pythonProcess.stderr.on('data')
OnStderrData_IntoData(data) ==
    /\ dataString' = dataString \o toString(data)
    /\ UNCHANGED errorString

OnStderrData(data) ==
    /\ errorString' = errorString \o toString(data)
    /\ UNCHANGED dataString

StderrData(data) ==
    /\ pc = "running"
    /\ Len(stderrChunks) < MaxErr
    /\ stderrChunks' = Append(stderrChunks, data)
    /\ OnStderrData(data)
    /\ UNCHANGED <<pc, body, spawnOutcome, spawnCalls, stdoutChunks,
                   closeCode, composed, formattedResponse, responses>>

\* what pythonProcess.on('close') sends
CloseResponses_NoReturn(code) ==
    IF ExitFailed(code)
    THEN <<Response(500, "error", FAILED_PROCESS),
           Response(200, "response", FinalGuard(FormatResponse(dataString)))>>
    ELSE <<Response(200, "response", FinalGuard(FormatResponse(dataString)))>>

CloseResponses(code) ==
    IF ExitFailed(code)
    THEN <<Response(500, "error", FAILED_PROCESS)>>
    ELSE <<Response(200, "response", FinalGuard(FormatResponse(dataString)))>>

\* pythonProcess.on('close')
Close(code) ==
    /\ pc = "running"
    /\ pc' = "closed"
    /\ closeCode' = code
    /\ composed' = ~ExitFailed(code)
    /\ formattedResponse' = IF ExitFailed(code) THEN <<>>
                                                ELSE FormatResponse(dataString)
    /\ responses' = responses \o CloseResponses(code)
    /\ UNCHANGED <<body, spawnOutcome, spawnCalls, dataString, errorString,
                   stdoutChunks, stderrChunks>>

Next ==
    \/ \E reqBody \in Bodies, outcome \in SpawnOutcomes :
           PostChat(reqBody, outcome)
    \/ UncaughtSpawnError
    \/ \E data \in StdoutPool : StdoutData(data)
    \/ \E data \in StderrPool : StderrData(data)
    \/ \E code \in ExitCodes : Close(code)

Spec == Init /\ [][Next]_vars

----------------------------------------------------------------------------
(* The terms of the properties: RawOutput, AgentMessage, ComposedReply. *)

Succeeded == pc = "closed" /\ closeCode = {0}

\* the string sent to the caller
Reply == responses[1].text

OutputLines == split(dataString)

\* a line of the tagged format [identifier]: text
Tagged(line) == agentMatch(line).matched

\* the AgentMessage sequence: the tagged lines whose text is not None, in
\* line order
AgentMessages ==
    LET matches == [i \in 1..Len(OutputLines) |-> agentMatch(OutputLines[i])]
        kept == SelectSeq(matches,
                          LAMBDA m : m.matched /\ m.message # NONE)
    IN  [i \in 1..Len(kept) |-> [agentName |-> kept[i].agent,
                                 text |-> kept[i].message]]

Speaks(messages, name) ==
    \E i \in 1..Len(messages) : messages[i].agentName = name

DataBearingSpeaks(messages) ==
    Speaks(messages, CAISO_Market) \/ Speaks(messages, Weather)

\* the texts of the messages that are not None and longer than 10 characters,
\* joined by a blank line
LongTextsJoined(messages) ==
    LET long == SelectSeq(messages,
                          LAMBDA m : m.text # NONE /\ Len(m.text) > 10)
    IN  join([i \in 1..Len(long) |-> long[i].text], <<"\n", "\n">>)

\* a line the raw fallback keeps: non-blank after trimming, not starting with
\* User:, containing none of the four noise words
Survives(line) ==
    /\ trim(line) # <<>>
    /\ ~startsWith(line, USER_PREFIX)
    /\ \A w \in {USERWARNING, INFO, DEBUG, WARNING_COLON} : ~includes(line, w)

SurvivorsJoined == join(SelectSeq(OutputLines, Survives), <<"\n">>)

\* the texts of the chunks of one stream, concatenated in the order emitted
RECURSIVE TextOf(_)
TextOf(chunks) ==
    IF Len(chunks) = 0 THEN <<>>
    ELSE toString(Head(chunks)) \o TextOf(Tail(chunks))

----------------------------------------------------------------------------
(* The properties. *)

\* C1: when the agent process cannot be started, the request ends with a
\* status 500 {error} response and no composition.
C1_SpawnFailureAnswered500 ==
    (spawnOutcome \in {"throws", "errorEvent"} /\ pc \in {"threw", "crashed"})
        => /\ Len(responses) = 1
           /\ responses[1].status = 500
           /\ responses[1].key = "error"
           /\ ~composed

\* C2: a close with any code other than 0, null included, is answered with
\* status 500 and the fixed error string whatever the buffers hold, and no
\* extraction or composition runs.
C2_NonZeroExitGeneric500 ==
    (pc = "closed" /\ closeCode # {0})
        => /\ responses = <<Response(500, "error", FAILED_PROCESS)>>
           /\ ~composed
           /\ formattedResponse = <<>>

C2_Witness ==
    /\ pc = "closed"
    /\ closeCode = {}
    /\ Len(AgentMessages) > 0
    /\ errorString # <<>>

\* C3: a request with a missing or empty message is answered at once with
\* status 400 and an {error} body, and no process is started for it.
C3_MissingMessageRejected ==
    (pc # "idle" /\ (~body.hasMessage \/ body.message = <<>>))
        => /\ pc = "rejected"
           /\ responses = <<Response(400, "error", MESSAGE_REQUIRED)>>
           /\ spawnCalls = 0
           /\ stdoutChunks = <<>>
           /\ stderrChunks = <<>>

C3_Witness ==
    pc = "rejected" /\ body.hasMessage /\ body.message = <<>>

\* C4 as stated: on success the sentinel is substituted only when the
\* AgentMessage sequence is empty and the fallback join is empty.
C4_SentinelOnlyWhenBothEmpty ==
    (Succeeded /\ formattedResponse = <<>>)
        => (Len(AgentMessages) = 0 /\ SurvivorsJoined = <<>>)

\* C4 as amended: on success the sentinel is substituted only when the
\* AgentMessage sequence is empty and the fallback join is empty, or when a
\* data-bearing agent spoke and no AgentMessage is longer than 10 characters.
C4_SentinelOnlyWhenNothingSurvives ==
    (Succeeded /\ formattedResponse = <<>>)
        => LET messages == AgentMessages
           IN  /\ Reply = SENTINEL
               /\ \/ (Len(messages) = 0 /\ SurvivorsJoined = <<>>)
                  \/ /\ DataBearingSpeaks(messages)
                     /\ \A i \in 1..Len(messages) :
                            Len(messages[i].text) <= 10

C4_Witness ==
    /\ Succeeded
    /\ formattedResponse = <<>>
    /\ Reply = SENTINEL
    /\ Len(AgentMessages) > 0

\* C5: on success the response string is never empty, whatever RawOutput is.
C5_ReplyNonEmpty ==
    Succeeded
        => /\ Len(responses) = 1
           /\ responses[1].status = 200
           /\ responses[1].key = "response"
           /\ Reply # <<>>

C5_Witness ==
    /\ Succeeded
    /\ dataString # <<>>
    /\ formattedResponse = <<>>
    /\ Reply # <<>>

\* C6 as stated: when both a CAISO_Market and a Weather AgentMessage are
\* present, the reply is the blank-line join, in order, of the texts that are
\* not None and longer than 10 characters.
C6_BothDataJoin ==
    Succeeded
        => LET messages == AgentMessages
           IN  (Speaks(messages, CAISO_Market) /\ Speaks(messages, Weather))
                   => Reply = LongTextsJoined(messages)

\* C6 as amended: when both a CAISO_Market and a Weather AgentMessage are
\* present, the reply is that join, or the sentinel when the join is empty.
C6_BothDataJoinOrSentinel ==
    Succeeded
        => LET messages == AgentMessages
               joined == LongTextsJoined(messages)
           IN  (Speaks(messages, CAISO_Market) /\ Speaks(messages, Weather))
                   => Reply = IF joined = <<>> THEN SENTINEL ELSE joined

C6_Witness ==
    /\ Succeeded
    /\ LET messages == AgentMessages
       IN  /\ Speaks(messages, CAISO_Market)
           /\ Speaks(messages, Weather)
           /\ messages[Len(messages)].agentName \notin {CAISO_Market, Weather}
           /\ \E i \in 1..Len(messages) : Len(messages[i].text) <= 10
    /\ includes(Reply, <<"\n", "\n">>)

\* C7: with at least one AgentMessage and none from CAISO_Market or Weather,
\* the reply is the text of the last AgentMessage in line order, a line whose
\* text is None not being an AgentMessage.
C7_LastMessage ==
    Succeeded
        => LET messages == AgentMessages
           IN  (Len(messages) > 0 /\ ~DataBearingSpeaks(messages))
                   => Reply = messages[Len(messages)].text

C7_Witness ==
    /\ Succeeded
    /\ LET messages == AgentMessages
       IN  /\ Len(messages) > 1
           /\ ~DataBearingSpeaks(messages)
           /\ messages[1].text # messages[Len(messages)].text
    /\ \E i \in 1..Len(OutputLines) :
           Tagged(OutputLines[i]) /\ agentMatch(OutputLines[i]).message = NONE

\* C8: with no line of the tagged format, the reply is the newline join, in
\* order, of the lines that are non-blank after trimming, do not start with
\* User: and contain no noise word, or the sentinel when that join is empty.
C8_RawFallback ==
    Succeeded
        => LET lines == OutputLines
               joined == SurvivorsJoined
           IN  (\A i \in 1..Len(lines) : ~Tagged(lines[i]))
                   => Reply = IF joined = <<>> THEN SENTINEL ELSE joined

C8_Witness ==
    /\ Succeeded
    /\ \A i \in 1..Len(OutputLines) : ~Tagged(OutputLines[i])
    /\ Reply = SurvivorsJoined
    /\ includes(Reply, <<"\n">>)
    /\ \E i \in 1..Len(OutputLines) :
           OutputLines[i] # <<>> /\ trim(OutputLines[i]) = <<>>
    /\ \E i \in 1..Len(OutputLines) : startsWith(OutputLines[i], USER_PREFIX)
    /\ \E i \in 1..Len(OutputLines) : includes(OutputLines[i], DEBUG)

\* C9: at most one response is sent for a request, and a request that was
\* rejected, whose spawn threw, or whose process has closed has received one.
C9_AnsweredOnce ==
    /\ Len(responses) <= 1
    /\ pc \in {"rejected", "threw", "closed"} => Len(responses) = 1
    /\ \A i \in 1..Len(responses) :
           <<responses[i].status, responses[i].key>>
               \in {<<400, "error">>, <<500, "error">>, <<200, "response">>}

C9_Witness ==
    /\ pc = "closed"
    /\ closeCode = {1}
    /\ Len(stdoutChunks) > 1
    /\ Len(stderrChunks) > 0
    /\ Len(responses) = 1

====
